---- MODULE Spec2Model ----
(***************************************************************************)
(* Pastify clipboard history engine (src-tauri/src/main.rs): the clipboard *)
(* watcher thread, the SQLite tables clipboard_items and settings, the     *)
(* SKIP_UNTIL_MS suppression timestamp and the tauri command handlers.     *)
(*                                                                         *)
(* Option<T> is modelled as a sequence of length 0 (None) or 1 (Some(x)).  *)
(* Strings that the code inspects character by character (clipboard text,  *)
(* application display names) are sequences of one-character strings.      *)
(* The columns source_path and source_icon are written once by INSERT and  *)
(* never read by any decision of the code; they are carried by source_app. *)
(* Only the tables that main() finds at startup hold them as columns.      *)
(* Every SQL statement is atomic; one watcher iteration is one action.     *)
(***************************************************************************)
EXTENDS Integers, Sequences, FiniteSets, TLC

\* ---------------------------------------------------------------- bounds
MaxWrites == 3          \* external clipboard writes in one behaviour
MaxNow == 1500          \* the clock stops the watcher beyond this time (ms)
ShortNow == 1000        \* the same for behaviours without a suppression window
FewWrites == 2          \* the same in behaviours with replays
MaxUsage == 1           \* replays of one entry in one behaviour
MaxSeq == 4             \* no replay starts beyond this clipboard sequence number
BulkRows == 501         \* rows of the largest stored history

\* ------------------------------------------------------ program constants
SkipWindowMs == 1200    \* now_ms + 1200
PollMs == 250           \* thread::sleep(Duration::from_millis(250))
SETTINGS_DEFAULT_max_history == 1000
DayMs == 86400000       \* ChronoDuration::days(1)
HourMs == 3600000
MinuteMs == 60000
HistoryLimit == 500     \* LIMIT 500

\* -------------------------------------------------------------- universe
None == << >>
Some(x) == << x >>

\* the durations one sleep of the watcher can take: 250 ms, or a wake-up as
\* late as a suppression window is long
SleepMs == {PollMs, SkipWindowMs}

\* clipboard texts: "a", "b", "a " (trailing blank) and the blank " "
TextA == << "a" >>
TextB == << "b" >>
TextASp == << "a", " " >>
TextBlank == << " " >>
ClipTexts == {TextA, TextB, TextASp, TextBlank}

\* raw clipboard images (width, height, bytes)
Images == {"p", "q", "r"}

\* foreground application display names
AppVi == << "V", "i" >>
AppEd == << "e", "d" >>
Foregrounds == {None, Some(AppVi), Some(AppEd)}
BlackVi == << "v", "I" >>
Blacklists == {<< >>, << BlackVi >>}

Hotkeys == {"Ctrl+Shift+V"}
MaxHistoryInputs == {-1, 0, 1}
InitMaxHistory == {1, 2, 3}

\* offsets of the local time zone from UTC, ms: UTC, UTC+1, UTC-1
Offsets == {0, HourMs, -HourMs}

\* ------------------------------------------------------------ pure helpers
Min(a, b) == IF a < b THEN a ELSE b

\* char::is_whitespace on the characters used here
IsWhitespace(c) == c = " "

\* str::trim: strip leading and trailing whitespace
RECURSIVE TrimStart(_)
TrimStart(s) ==
    IF s = << >> THEN s
    ELSE IF IsWhitespace(Head(s)) THEN TrimStart(Tail(s))
    ELSE s

RECURSIVE TrimEnd(_)
TrimEnd(s) ==
    IF s = << >> THEN s
    ELSE IF IsWhitespace(s[Len(s)]) THEN TrimEnd(SubSeq(s, 1, Len(s) - 1))
    ELSE s

Trim(s) == TrimEnd(TrimStart(s))

\* u8::to_ascii_lowercase on the characters used here
ToAsciiLower(c) ==
    CASE c = "V" -> "v"
      [] c = "I" -> "i"
      [] c = "E" -> "e"
      [] c = "D" -> "d"
      [] c = "A" -> "a"
      [] OTHER -> c

\* str::eq_ignore_ascii_case
eq_ignore_ascii_case(a, b) ==
    /\ Len(a) = Len(b)
    /\ \A i \in 1..Len(a) : ToAsciiLower(a[i]) = ToAsciiLower(b[i])

\* the blacklist test with b == &app.display
Blacklisted_case_sensitive(settings, proc_info) ==
    /\ proc_info /= None
    /\ \E i \in 1..Len(settings.blacklist) : settings.blacklist[i] = proc_info[1]

\* settings.blacklist.iter().any(|b| b.eq_ignore_ascii_case(&app.display))
Blacklisted(settings, proc_info) ==
    /\ proc_info /= None
    /\ \E i \in 1..Len(settings.blacklist) :
          eq_ignore_ascii_case(settings.blacklist[i], proc_info[1])

\* DynamicImage::write_to(.., Png): the PNG bytes of a raw image; "p" and
\* "q" are different pictures whose encodings have the same length
PngEncode(img) ==
    CASE img = "p" -> << 1, 2 >>
      [] img = "q" -> << 2, 1 >>
      [] OTHER -> << 1, 2, 3 >>

\* ------------------------------------------------------------------ state
VARIABLES
    clipboard_items,   \* rows of table clipboard_items
    next_rowid,        \* AUTOINCREMENT counter of clipboard_items
    db_settings,       \* the settings row with key 'app'
    state_settings,    \* AppState.settings, the Arc<Mutex<Settings>>
    clipboard,         \* OS clipboard: sequence number, text, image
    last_seq,          \* the watcher's last_seq
    SKIP_UNTIL_MS,     \* the suppression timestamp
    now,               \* wall clock, ms
    emitted,           \* ids carried by the "clipboard://new" events
    tick,              \* what the watcher's latest iteration did, the
                       \* foreground application it resolved, and whether
                       \* the thread is still in its loop
    replay,            \* the copy_entry / paste_entry call in progress
    updaters,          \* the update_settings calls in progress
    reply,             \* the Result the latest finished command returned
    written            \* contents written to the clipboard by other programs,
                       \* each with whether it replaced contents not yet polled

vars == << clipboard_items, next_rowid, db_settings, state_settings, clipboard,
           last_seq, SKIP_UNTIL_MS, now, emitted, tick, replay, updaters,
           reply, written >>

Ids(rows) == {e.id : e \in rows}
Row(id) == CHOOSE e \in clipboard_items : e.id = id
NonPinned(rows) == {e \in rows : ~e.is_pinned}
Pinned(rows) == {e \in rows : e.is_pinned}

\* ------------------------------------------------------------ the store
\* ORDER BY is_pinned DESC, created_at DESC: TRUE when e comes before f
Before(e, f) ==
    \/ e.is_pinned /\ ~f.is_pinned
    \/ e.is_pinned = f.is_pinned /\ e.created_at > f.created_at

\* SELECT id ... ORDER BY is_pinned DESC, created_at DESC LIMIT max
\* (a negative LIMIT is no limit in SQLite)
TopRows(rows, max) ==
    IF max < 0 THEN rows
    ELSE {e \in rows : Cardinality({f \in rows : Before(f, e)}) < max}

\* enforce_limit with LIMIT ?1 + 1
enforce_limit_off_by_one(rows, max) ==
    {e \in rows : e \in TopRows(rows, max + 1) \/ e.is_pinned}

\* enforce_limit without AND is_pinned = 0
enforce_limit_pinned_too(rows, max) == TopRows(rows, max)

\* DELETE ... WHERE id NOT IN (top rows) AND is_pinned = 0
enforce_limit(rows, max) ==
    {e \in rows : e \in TopRows(rows, max) \/ e.is_pinned}

\* SELECT ... ORDER BY created_at DESC LIMIT 1
LastRow(rows) ==
    IF rows = {} THEN None
    ELSE Some(CHOOSE e \in rows : \A f \in rows : f.created_at <= e.created_at)

\* is_duplicate comparing the candidate with every stored row
is_duplicate_any_row(rows, item) ==
    \E e \in rows :
        /\ e.content_type = item.content_type
        /\ e.text_content = item.text_content
        /\ e.image_data = item.image_data

\* is_duplicate comparing the picture payloads byte for byte
is_duplicate_image_bytes(rows, item) ==
    LET last == LastRow(rows) IN
    IF last /= None /\ last[1].content_type = item.content_type
    THEN IF last[1].content_type = "text"
         THEN last[1].text_content = item.text_content
         ELSE last[1].image_data = item.image_data
    ELSE FALSE

is_duplicate(rows, item) ==
    LET last == LastRow(rows) IN
    IF last /= None /\ last[1].content_type = item.content_type
    THEN IF last[1].content_type = "text"
         THEN last[1].text_content = item.text_content
         ELSE (IF last[1].image_data = None THEN None ELSE Some(Len(last[1].image_data[1])))
              = (IF item.image_data = None THEN None ELSE Some(Len(item.image_data[1])))
    ELSE FALSE

\* INSERT INTO clipboard_items ... ; item.id = last_insert_rowid()
InsertRow(rows, item, id) == rows \cup {[item EXCEPT !.id = id]}

\* save_settings: INSERT OR REPLACE INTO settings(key, value) VALUES('app', json)
save_settings(settings) == settings

\* load_settings: record_images is forced to true (and written back)
load_settings(row) == [row EXCEPT !.record_images = TRUE]

\* -------------------------------------------------------------- settings
\* the Settings values a caller passes to update_settings
Settings ==
    [max_history : {1, 2}, record_images : BOOLEAN,
     hotkey : Hotkeys, blacklist : {<< >>}]

\* the settings rows an earlier run can have left in the table
StoredSettings ==
    [max_history : InitMaxHistory, record_images : BOOLEAN,
     hotkey : Hotkeys, blacklist : {<< >>}]

\* the tauri command handlers that can run update_settings
Callers == {1, 2}

IdleReplay == [pc |-> "idle", id |-> 0, mode |-> "none", item |-> None]
IdleUpdater == [pc |-> "idle", settings |-> None, normalized |-> None]

\* Result<T, String> of a command: Ok(value) or Err, and the Settings
\* argument the command was called with
Reply(cmd, ok, value, arg) == [cmd |-> cmd, ok |-> ok, value |-> value, arg |-> arg]
NoReply == Reply("none", TRUE, None, None)

\* ------------------------------------------------------------------- Init
\* main(): ensure_db, load_settings, AppState, spawn_clipboard_watcher.
\* The settings row is one saved by an earlier run, read (and written back
\* with record_images = true) by load_settings; the history is empty;
\* last_seq is GetClipboardSequenceNumber() at start.
Init ==
    /\ clipboard_items = {}
    /\ next_rowid = 1
    /\ \E row \in StoredSettings :
          /\ db_settings = load_settings(row)
          /\ state_settings = load_settings(row)
    /\ clipboard = [seq |-> 0, text |-> None, image |-> None]
    /\ last_seq = 0
    /\ SKIP_UNTIL_MS = 0
    /\ now = 0
    /\ emitted = {}
    /\ tick = [outcome |-> "start", id |-> 0, proc_info |-> None,
               running |-> TRUE]
    /\ replay = IdleReplay
    /\ updaters = [c \in Callers |-> IdleUpdater]
    /\ reply = NoReply
    /\ written = << >>

\* ------------------------------------------------- other programs' copies
\* another program sets the clipboard: the sequence number changes
ExternalWrite(text, image) ==
    /\ Len(written) < MaxWrites
    /\ clipboard' = [seq |-> clipboard.seq + 1, text |-> text, image |-> image]
    /\ written' = Append(written, [text |-> text, image |-> image,
                                   overwrote |-> clipboard.seq /= last_seq])
    /\ UNCHANGED << clipboard_items, next_rowid, db_settings, state_settings,
                    last_seq, SKIP_UNTIL_MS, now, emitted, tick, replay,
                    updaters, reply >>

ExternalWriteText ==
    \E t \in ClipTexts : ExternalWrite(Some(t), None)

\* a text, a picture, or both
ExternalWriteMixed ==
    \/ ExternalWrite(Some(TextA), None)
    \/ ExternalWrite(None, Some("p"))
    \/ ExternalWrite(Some(TextA), Some("p"))

\* copies of the texts "a" and "b" only
ExternalWriteAB ==
    \E t \in {TextA, TextB} : ExternalWrite(Some(t), None)

\* at most FewWrites copies of the texts "a" and "b"
ExternalWriteFew ==
    /\ Len(written) < FewWrites
    /\ \E t \in {TextA, TextB} : ExternalWrite(Some(t), None)

\* copies of the texts "a", "b" and " " only
ExternalWriteShort ==
    \E t \in {TextA, TextB, TextBlank} : ExternalWrite(Some(t), None)

ExternalWriteImage ==
    \E i \in Images, t \in {None, Some(TextA), Some(TextBlank)} :
        ExternalWrite(t, Some(i))

\* at most FewWrites copies of any mix of a text ("a", "a " or " ") and a
\* picture ("p", "q" or "r"), or of neither (a format that is no text and
\* no picture)
ExternalWriteContent ==
    /\ Len(written) < FewWrites
    /\ \E t \in {None, Some(TextA), Some(TextASp), Some(TextBlank)},
          i \in {None, Some("p"), Some("q"), Some("r")} :
          ExternalWrite(t, i)

\* ------------------------------------------------------------ the watcher
\* the ways one iteration can fail
Faults == {"none", "clipboard", "db_dup", "db_insert", "db_enforce", "encode"}

\* what one call did: the table afterwards, the branch taken, the id of the
\* returned ClipboardDto (0 if none) and whether a row was inserted
Result(rows, outcome, id, inserted) ==
    [rows |-> rows, outcome |-> outcome, id |-> id, inserted |-> inserted]

\* insert_item without the call of enforce_limit
insert_item_no_eviction(rows, item, max, id, fault) ==
    IF fault = "db_insert"
    THEN Result(rows, "error", 0, FALSE)
    ELSE Result(InsertRow(rows, item, id), "stored", id, TRUE)

\* insert_item: INSERT, last_insert_rowid, enforce_limit, to_dto
insert_item(rows, item, max, id, fault) ==
    IF fault = "db_insert"
    THEN Result(rows, "error", 0, FALSE)
    ELSE IF fault = "db_enforce"
    THEN Result(InsertRow(rows, item, id), "error", 0, TRUE)
    ELSE Result(enforce_limit(InsertRow(rows, item, id), max), "stored", id, TRUE)

\* the tail shared by the text and the image branch of read_clipboard
StoreCandidate(rows, item, max, id, fault) ==
    IF fault = "db_dup"
    THEN Result(rows, "error", 0, FALSE)
    ELSE IF is_duplicate(rows, item)
    THEN Result(rows, "duplicate", 0, FALSE)
    ELSE insert_item(rows, item, max, id, fault)

Candidate(ctype, text, image, proc_info, at) ==
    [id |-> 0, content_type |-> ctype, text_content |-> text,
     image_data |-> image, source_app |-> proc_info, created_at |-> at,
     is_pinned |-> FALSE, usage_count |-> 0]

read_clipboard(rows, settings, proc_info, clip, at, id, fault) ==
    IF Blacklisted(settings, proc_info)
    THEN Result(rows, "blacklisted", 0, FALSE)
    ELSE IF fault = "clipboard"
    THEN Result(rows, "error", 0, FALSE)
    ELSE IF clip.text /= None
    THEN IF Trim(clip.text[1]) = << >>
         THEN Result(rows, "blank", 0, FALSE)
         ELSE StoreCandidate(rows,
                  Candidate("text", clip.text, None, proc_info, at),
                  settings.max_history, id, fault)
    ELSE IF settings.record_images /\ clip.image /= None
    THEN IF fault = "encode"
         THEN Result(rows, "error", 0, FALSE)
         ELSE StoreCandidate(rows,
                  Candidate("image", None, Some(PngEncode(clip.image[1])),
                            proc_info, at),
                  settings.max_history, id, fault)
    ELSE Result(rows, "empty", 0, FALSE)

\* the loop with last_seq = seq moved to the Ok(Some(dto)) arm
WatcherResult_stale_seq(rows, settings, proc_info, clip, seen, skip, at, id, fault) ==
    IF clip.seq = seen
    THEN [res |-> Result(rows, "idle", 0, FALSE), last_seq |-> seen]
    ELSE IF at < skip
    THEN [res |-> Result(rows, "skipped", 0, FALSE), last_seq |-> seen]
    ELSE LET r == read_clipboard(rows, settings, proc_info, clip, at, id, fault)
         IN  [res |-> r,
              last_seq |-> IF r.outcome = "stored" THEN clip.seq ELSE seen]

\* the loop with now_ms <= SKIP_UNTIL_MS as the gate test
WatcherResult_gate_inclusive(rows, settings, proc_info, clip, seen, skip, at, id, fault) ==
    IF clip.seq = seen
    THEN [res |-> Result(rows, "idle", 0, FALSE), last_seq |-> seen]
    ELSE IF at <= skip
    THEN [res |-> Result(rows, "skipped", 0, FALSE), last_seq |-> clip.seq]
    ELSE [res |-> read_clipboard(rows, settings, proc_info, clip, at, id, fault),
          last_seq |-> clip.seq]

\* the loop with last_seq = seq moved below the test of SKIP_UNTIL_MS
WatcherResult_gate_first(rows, settings, proc_info, clip, seen, skip, at, id, fault) ==
    IF clip.seq = seen
    THEN [res |-> Result(rows, "idle", 0, FALSE), last_seq |-> seen]
    ELSE IF at < skip
    THEN [res |-> Result(rows, "skipped", 0, FALSE), last_seq |-> seen]
    ELSE [res |-> read_clipboard(rows, settings, proc_info, clip, at, id, fault),
          last_seq |-> clip.seq]

\* the loop with last_seq = seq left out of the Err(err) arm
WatcherResult_retry_after_error(rows, settings, proc_info, clip, seen, skip, at, id, fault) ==
    IF clip.seq = seen
    THEN [res |-> Result(rows, "idle", 0, FALSE), last_seq |-> seen]
    ELSE IF at < skip
    THEN [res |-> Result(rows, "skipped", 0, FALSE), last_seq |-> clip.seq]
    ELSE LET r == read_clipboard(rows, settings, proc_info, clip, at, id, fault)
         IN  [res |-> r,
              last_seq |-> IF r.outcome = "error" THEN seen ELSE clip.seq]

\* one iteration of the loop of spawn_clipboard_watcher
WatcherResult(rows, settings, proc_info, clip, seen, skip, at, id, fault) ==
    IF clip.seq = seen
    THEN [res |-> Result(rows, "idle", 0, FALSE), last_seq |-> seen]
    ELSE IF at < skip
    THEN [res |-> Result(rows, "skipped", 0, FALSE), last_seq |-> clip.seq]
    ELSE [res |-> read_clipboard(rows, settings, proc_info, clip, at, id, fault),
          last_seq |-> clip.seq]

\* the loop with read_clipboard(&db_path, &snapshot)? in place of the match
LoopContinues_error_propagates(outcome) == outcome /= "error"

\* the arms of match read_clipboard(..): Ok(Some(dto)) emits, Ok(None) does
\* nothing, Err(err) logs; none leaves the loop
LoopContinues(outcome) ==
    CASE outcome = "stored" -> TRUE
      [] outcome = "error" -> TRUE
      [] OTHER -> TRUE

Tick(d, proc_info, fault) ==
    /\ tick.running
    /\ now + d <= MaxNow
    /\ now' = now + d
    /\ LET r == WatcherResult(clipboard_items, state_settings, proc_info,
                              clipboard, last_seq, SKIP_UNTIL_MS, now + d,
                              next_rowid, fault)
       IN  /\ last_seq' = r.last_seq
           /\ clipboard_items' = r.res.rows
           /\ next_rowid' = IF r.res.inserted THEN next_rowid + 1 ELSE next_rowid
           /\ emitted' = IF r.res.outcome = "stored" THEN emitted \cup {r.res.id}
                         ELSE emitted
           /\ tick' = [outcome |-> r.res.outcome, id |-> r.res.id,
                       proc_info |-> proc_info,
                       running |-> LoopContinues(r.res.outcome)]
    /\ UNCHANGED << db_settings, state_settings, clipboard, SKIP_UNTIL_MS,
                    replay, updaters, reply, written >>

\* an iteration in which no clipboard or store call fails, no foreground
\* window resolved
TickOk == \E d \in SleepMs : Tick(d, None, "none")

\* the same after a sleep of exactly 250 ms
TickAttributed ==
    /\ now + PollMs <= ShortNow
    /\ \E p \in Foregrounds \ {None} : Tick(PollMs, p, "none")

\* the same after a sleep of exactly 250 ms, no foreground window resolved
TickOnTime == now + PollMs <= ShortNow /\ Tick(PollMs, None, "none")

\* any iteration
TickAny == \E d \in SleepMs, p \in Foregrounds, f \in Faults : Tick(d, p, f)

\* an on-time iteration in which one call may fail
TickFaulty ==
    /\ now + PollMs <= ShortNow
    /\ \E f \in Faults : Tick(PollMs, None, f)

\* ------------------------------------------------------- point mutations
\* the ids a caller can pass: every assigned id and one never assigned
KnownIds == 1..next_rowid

\* DELETE FROM clipboard_items WHERE id = ?1
delete_entry(id) ==
    /\ clipboard_items' = {e \in clipboard_items : e.id /= id}
    /\ reply' = Reply("delete_entry", TRUE, None, None)
    /\ UNCHANGED << next_rowid, db_settings, state_settings, clipboard,
                    last_seq, SKIP_UNTIL_MS, now, emitted, tick, replay,
                    updaters, written >>

\* UPDATE ... SET is_pinned = 1: pins, never unpins
TogglePinned_set_only(rows, id) ==
    {IF e.id = id THEN [e EXCEPT !.is_pinned = TRUE] ELSE e : e \in rows}

\* UPDATE clipboard_items SET is_pinned = CASE is_pinned WHEN 1 THEN 0 ELSE 1 END
TogglePinned(rows, id) ==
    {IF e.id = id THEN [e EXCEPT !.is_pinned = ~e.is_pinned] ELSE e : e \in rows}

toggle_pin(id) ==
    /\ clipboard_items' = TogglePinned(clipboard_items, id)
    /\ reply' = Reply("toggle_pin", TRUE, None, None)
    /\ UNCHANGED << next_rowid, db_settings, state_settings, clipboard,
                    last_seq, SKIP_UNTIL_MS, now, emitted, tick, replay,
                    updaters, written >>

DeleteEntry == \E id \in KnownIds : delete_entry(id)
TogglePin == \E id \in KnownIds : toggle_pin(id)

\* --------------------------------------------------------------- settings
\* get_settings: load_settings(&state.db_path)
get_settings ==
    /\ db_settings' = load_settings(db_settings)
    /\ reply' = Reply("get_settings", TRUE, Some(load_settings(db_settings)), None)
    /\ UNCHANGED << clipboard_items, next_rowid, state_settings, clipboard,
                    last_seq, SKIP_UNTIL_MS, now, emitted, tick, replay,
                    updaters, written >>

\* update_settings without normalized.record_images = true
Normalize_as_passed(settings) == settings

\* normalized.record_images = true
Normalize(settings) == [settings EXCEPT !.record_images = TRUE]

\* update_settings with *state.settings.lock() = normalized.clone() moved
\* above save_settings(..)?
UpdateSave_snapshot_first(c, settings, saved) ==
    /\ updaters[c].pc = "idle"
    /\ state_settings' = Normalize(settings)
    /\ IF saved
       THEN /\ db_settings' = save_settings(Normalize(settings))
            /\ updaters' = [updaters EXCEPT ![c] =
                   [pc |-> "saved", settings |-> Some(settings),
                    normalized |-> Some(Normalize(settings))]]
            /\ reply' = reply
       ELSE /\ reply' = Reply("update_settings", FALSE, None, Some(settings))
            /\ UNCHANGED << db_settings, updaters >>
    /\ UNCHANGED << clipboard_items, next_rowid, clipboard,
                    last_seq, SKIP_UNTIL_MS, now, emitted, tick, replay,
                    written >>

\* update_settings up to save_settings(..)?: the row is written, or the
\* write fails and the command returns Err
UpdateSave(c, settings, saved) ==
    /\ updaters[c].pc = "idle"
    /\ IF saved
       THEN /\ db_settings' = save_settings(Normalize(settings))
            /\ updaters' = [updaters EXCEPT ![c] =
                   [pc |-> "saved", settings |-> Some(settings),
                    normalized |-> Some(Normalize(settings))]]
            /\ reply' = reply
       ELSE /\ reply' = Reply("update_settings", FALSE, None, Some(settings))
            /\ UNCHANGED << db_settings, updaters >>
    /\ UNCHANGED << clipboard_items, next_rowid, state_settings, clipboard,
                    last_seq, SKIP_UNTIL_MS, now, emitted, tick, replay,
                    written >>

\* update_settings from *state.settings.lock() = normalized.clone() on:
\* the snapshot is replaced, register_hotkey succeeds or fails
UpdateStore(c, registered) ==
    /\ updaters[c].pc = "saved"
    /\ state_settings' = updaters[c].normalized[1]
    /\ reply' = IF registered
                THEN Reply("update_settings", TRUE, updaters[c].normalized,
                           updaters[c].settings)
                ELSE Reply("update_settings", FALSE, None, updaters[c].settings)
    /\ updaters' = [updaters EXCEPT ![c] = IdleUpdater]
    /\ UNCHANGED << clipboard_items, next_rowid, db_settings, clipboard,
                    last_seq, SKIP_UNTIL_MS, now, emitted, tick, replay,
                    written >>

\* one caller lowering max_history only, no call failing
UpdateCapSave ==
    \E m \in MaxHistoryInputs :
        UpdateSave(1, [state_settings EXCEPT !.max_history = m], TRUE)

\* one caller changing the blacklist only, no call failing
UpdateBlacklistSave ==
    \E b \in Blacklists :
        UpdateSave(1, [state_settings EXCEPT !.blacklist = b], TRUE)

UpdateStoreOk == UpdateStore(1, TRUE)

\* one caller, any Settings, save_settings and register_hotkey succeeding
\* or failing
UpdateOneSave == \E s \in Settings, saved \in BOOLEAN : UpdateSave(1, s, saved)
UpdateOneStore == \E registered \in BOOLEAN : UpdateStore(1, registered)

UpdateSettingsSave ==
    \E c \in Callers, s \in Settings, saved \in BOOLEAN : UpdateSave(c, s, saved)

UpdateSettingsStore ==
    \E c \in Callers, registered \in BOOLEAN : UpdateStore(c, registered)

\* ----------------------------------------------------------------- replay
\* image::load_from_memory(..).to_rgba8(): the picture a PNG payload holds
PngDecode(bytes) ==
    CASE bytes = << 1, 2 >> -> "p"
      [] bytes = << 2, 1 >> -> "q"
      [] OTHER -> "r"

\* UPDATE clipboard_items SET usage_count = usage_count + 1 without the
\* WHERE id = ?1
IncrementUsage_all_rows(rows, id) ==
    {[e EXCEPT !.usage_count = e.usage_count + 1] : e \in rows}

\* UPDATE clipboard_items SET usage_count = usage_count + 1 WHERE id = ?1
IncrementUsage(rows, id) ==
    {IF e.id = id THEN [e EXCEPT !.usage_count = e.usage_count + 1] ELSE e :
        e \in rows}

\* Option<String>::unwrap_or_default()
UnwrapOrDefault(opt) == IF opt = None THEN << >> ELSE opt[1]

\* copy_entry / paste_entry with SKIP_UNTIL_MS.store(..) moved above the
\* query_row that loads the row
ReplayBegin_arm_first(id, mode, opened) ==
    /\ replay.pc = "idle"
    /\ clipboard.seq < MaxSeq
    /\ id \in Ids(clipboard_items) => Row(id).usage_count < MaxUsage
    /\ SKIP_UNTIL_MS' = now + SkipWindowMs
    /\ IF id \in Ids(clipboard_items) /\ opened
       THEN /\ replay' = [pc |-> "armed", id |-> id, mode |-> mode,
                          item |-> Some(Row(id))]
            /\ reply' = reply
       ELSE /\ reply' = Reply(mode, FALSE, None, None)
            /\ UNCHANGED << replay >>
    /\ UNCHANGED << clipboard_items, next_rowid, db_settings, state_settings,
                    clipboard, last_seq, now, emitted, tick, updaters, written >>

\* copy_entry / paste_entry with SKIP_UNTIL_MS.store(..) moved below the
\* clipboard write: the gate is not yet armed when the write is made
ReplayBegin_write_then_arm(id, mode, opened) ==
    /\ replay.pc = "idle"
    /\ clipboard.seq < MaxSeq
    /\ id \in Ids(clipboard_items) => Row(id).usage_count < MaxUsage
    /\ IF id \in Ids(clipboard_items) /\ opened
       THEN /\ replay' = [pc |-> "armed", id |-> id, mode |-> mode,
                          item |-> Some(Row(id))]
            /\ reply' = reply
       ELSE /\ reply' = Reply(mode, FALSE, None, None)
            /\ UNCHANGED << replay >>
    /\ UNCHANGED << clipboard_items, next_rowid, db_settings, state_settings,
                    clipboard, last_seq, SKIP_UNTIL_MS, now, emitted, tick,
                    updaters, written >>

\* copy_entry / paste_entry up to SKIP_UNTIL_MS.store(now_ms + 1200): the
\* row is loaded (Err if absent), Clipboard::new() succeeds or fails, the
\* gate is armed
ReplayBegin(id, mode, opened) ==
    /\ replay.pc = "idle"
    /\ clipboard.seq < MaxSeq
    /\ id \in Ids(clipboard_items) => Row(id).usage_count < MaxUsage
    /\ IF id \in Ids(clipboard_items) /\ opened
       THEN /\ SKIP_UNTIL_MS' = now + SkipWindowMs
            /\ replay' = [pc |-> "armed", id |-> id, mode |-> mode,
                          item |-> Some(Row(id))]
            /\ reply' = reply
       ELSE /\ reply' = Reply(mode, FALSE, None, None)
            /\ UNCHANGED << SKIP_UNTIL_MS, replay >>
    /\ UNCHANGED << clipboard_items, next_rowid, db_settings, state_settings,
                    clipboard, last_seq, now, emitted, tick, updaters, written >>

\* the clipboard contents a replay of item produces
ReplayedClipboard(clip, item) ==
    IF item.content_type = "text"
    THEN [seq |-> clip.seq + 1, text |-> Some(UnwrapOrDefault(item.text_content)),
          image |-> None]
    ELSE IF item.image_data /= None
    THEN [seq |-> clip.seq + 1, text |-> None,
          image |-> Some(PngDecode(item.image_data[1]))]
    ELSE clip

\* clipboard.set_text(..)? / load_from_memory(..)?, clipboard.set_image(..)?
ReplayWrite(done) ==
    /\ replay.pc = "armed"
    /\ IF done
       THEN /\ clipboard' = ReplayedClipboard(clipboard, replay.item[1])
            /\ replay' = [replay EXCEPT !.pc = "written"]
            /\ reply' = reply
       ELSE /\ clipboard' = clipboard
            /\ replay' = IdleReplay
            /\ reply' = Reply(replay.mode, FALSE, None, None)
    /\ UNCHANGED << clipboard_items, next_rowid, db_settings, state_settings,
                    last_seq, SKIP_UNTIL_MS, now, emitted, tick, updaters,
                    written >>

\* paste_entry clearing SKIP_UNTIL_MS when simulate_paste fails
ReplaySynthesize_rollback(sent) ==
    /\ replay.pc = "written"
    /\ replay.mode = "paste_entry"
    /\ IF sent
       THEN /\ replay' = [replay EXCEPT !.pc = "synthesized"]
            /\ reply' = reply
            /\ SKIP_UNTIL_MS' = SKIP_UNTIL_MS
       ELSE /\ replay' = IdleReplay
            /\ reply' = Reply(replay.mode, FALSE, None, None)
            /\ SKIP_UNTIL_MS' = 0
    /\ UNCHANGED << clipboard_items, next_rowid, db_settings, state_settings,
                    clipboard, last_seq, now, emitted, tick, updaters, written >>

\* paste_entry: simulate_paste(plain)?
ReplaySynthesize(sent) ==
    /\ replay.pc = "written"
    /\ replay.mode = "paste_entry"
    /\ IF sent
       THEN /\ replay' = [replay EXCEPT !.pc = "synthesized"]
            /\ reply' = reply
       ELSE /\ replay' = IdleReplay
            /\ reply' = Reply(replay.mode, FALSE, None, None)
    /\ UNCHANGED << clipboard_items, next_rowid, db_settings, state_settings,
                    clipboard, last_seq, SKIP_UNTIL_MS, now, emitted, tick,
                    updaters, written >>

\* the final UPDATE ... usage_count = usage_count + 1 and the return
ReplayIncrement(updated) ==
    /\ \/ replay.pc = "written" /\ replay.mode = "copy_entry"
       \/ replay.pc = "synthesized"
    /\ clipboard_items' = IF updated
                          THEN IncrementUsage(clipboard_items, replay.id)
                          ELSE clipboard_items
    /\ reply' = Reply(replay.mode, updated, None, None)
    /\ replay' = IdleReplay
    /\ UNCHANGED << next_rowid, db_settings, state_settings, clipboard,
                    last_seq, SKIP_UNTIL_MS, now, emitted, tick, updaters,
                    written >>

CopyEntryBegin ==
    \E id \in KnownIds, opened \in BOOLEAN : ReplayBegin(id, "copy_entry", opened)
PasteEntryBegin ==
    \E id \in KnownIds, opened \in BOOLEAN : ReplayBegin(id, "paste_entry", opened)
ReplayWriteStep == \E done \in BOOLEAN : ReplayWrite(done)
ReplaySynthesizeStep == \E sent \in BOOLEAN : ReplaySynthesize(sent)
ReplayIncrementStep == \E updated \in BOOLEAN : ReplayIncrement(updated)

\* ---------------------------------------------------------------- history
\* base64::engine::general_purpose::STANDARD
Base64Alphabet ==
    << "A", "B", "C", "D", "E", "F", "G", "H", "I", "J", "K", "L", "M",
       "N", "O", "P", "Q", "R", "S", "T", "U", "V", "W", "X", "Y", "Z",
       "a", "b", "c", "d", "e", "f", "g", "h", "i", "j", "k", "l", "m",
       "n", "o", "p", "q", "r", "s", "t", "u", "v", "w", "x", "y", "z",
       "0", "1", "2", "3", "4", "5", "6", "7", "8", "9", "+", "/" >>

Base64Char(n) == Base64Alphabet[n + 1]

\* BASE64.encode(bytes): three bytes give four characters, a shorter tail
\* is padded with "="
RECURSIVE Base64Encode(_)
Base64Encode(bytes) ==
    IF bytes = << >> THEN << >>
    ELSE IF Len(bytes) = 1
    THEN << Base64Char(bytes[1] \div 4), Base64Char((bytes[1] % 4) * 16),
            "=", "=" >>
    ELSE IF Len(bytes) = 2
    THEN << Base64Char(bytes[1] \div 4),
            Base64Char((bytes[1] % 4) * 16 + bytes[2] \div 16),
            Base64Char((bytes[2] % 16) * 4), "=" >>
    ELSE << Base64Char(bytes[1] \div 4),
            Base64Char((bytes[1] % 4) * 16 + bytes[2] \div 16),
            Base64Char((bytes[2] % 16) * 4 + bytes[3] \div 64),
            Base64Char(bytes[3] % 64) >>
         \o Base64Encode(SubSeq(bytes, 4, Len(bytes)))

\* to_dto: the row with image_data replaced by a data URI of its base64
to_dto(item) ==
    [id |-> item.id, content_type |-> item.content_type,
     text_content |-> item.text_content,
     image_thumb |-> IF item.image_data = None THEN None
                     ELSE Some(<< "data:image/png;base64," >>
                               \o Base64Encode(item.image_data[1])),
     source_app |-> item.source_app, created_at |-> item.created_at,
     is_pinned |-> item.is_pinned, usage_count |-> item.usage_count]

\* SQLite's LIKE: % stands for any run of characters, _ for any one
\* character, ASCII letters match without regard to case
RECURSIVE Like(_, _)
Like(text, pattern) ==
    IF pattern = << >> THEN text = << >>
    ELSE IF Head(pattern) = "%"
    THEN \/ Like(text, Tail(pattern))
         \/ text /= << >> /\ Like(Tail(text), pattern)
    ELSE /\ text /= << >>
         /\ \/ Head(pattern) = "_"
            \/ ToAsciiLower(Head(pattern)) = ToAsciiLower(Head(text))
         /\ Like(Tail(text), Tail(pattern))

\* the start of the local calendar day of at, and of the day before it, as
\* UTC milliseconds; offset is the local time zone's offset from UTC
today_start(at, offset) == ((at + offset) \div DayMs) * DayMs - offset
yesterday_start(at, offset) == ((at + offset) \div DayMs - 1) * DayMs - offset

\* the match on tf with "yesterday" as created_at >= ? AND created_at <= ?
TimeMatches_yesterday_inclusive(created_at, time_filter, at, offset) ==
    IF time_filter = None THEN TRUE
    ELSE CASE time_filter[1] = "today" -> created_at >= today_start(at, offset)
           [] time_filter[1] = "yesterday" ->
                 /\ created_at >= yesterday_start(at, offset)
                 /\ created_at <= today_start(at, offset)
           [] time_filter[1] = "earlier" -> created_at < yesterday_start(at, offset)
           [] OTHER -> TRUE

\* the conditions match tf.as_str() appends
TimeMatches(created_at, time_filter, at, offset) ==
    IF time_filter = None THEN TRUE
    ELSE CASE time_filter[1] = "today" -> created_at >= today_start(at, offset)
           [] time_filter[1] = "yesterday" ->
                 /\ created_at >= yesterday_start(at, offset)
                 /\ created_at < today_start(at, offset)
           [] time_filter[1] = "earlier" -> created_at < yesterday_start(at, offset)
           [] OTHER -> TRUE

\* the WHERE clause get_history builds: a filter that is None, a blank
\* query, a type other than "text" and "image", an empty source and an
\* unknown time filter add no condition
Matches(e, query, type_filter, time_filter, source_filter, at, offset) ==
    /\ ( query /= None /\ Trim(query[1]) /= << >> )
       => /\ e.text_content /= None
          /\ Like(e.text_content[1], << "%" >> \o query[1] \o << "%" >>)
    /\ ( type_filter /= None /\ type_filter[1] \in {"text", "image"} )
       => e.content_type = type_filter[1]
    /\ ( source_filter /= None /\ source_filter[1] /= << >> )
       => e.source_app = source_filter
    /\ TimeMatches(e.created_at, time_filter, at, offset)

\* rows in the order ORDER BY is_pinned DESC, created_at DESC, the first
\* limit of them
OrderedRows(rows, limit) ==
    LET ranked == {[pos |-> Cardinality({f \in rows : Before(f, e)}) + 1,
                    row |-> e] : e \in rows}
        kept == {r \in ranked : r.pos <= limit}
    IN  [i \in 1..Cardinality(kept) |-> (CHOOSE r \in kept : r.pos = i).row]

\* SELECT ... WHERE ... ORDER BY is_pinned DESC, created_at DESC LIMIT 500,
\* each row passed through to_dto
SelectHistory(rows, query, type_filter, time_filter, source_filter, at, offset) ==
    LET matched == {e \in rows : Matches(e, query, type_filter, time_filter,
                                         source_filter, at, offset)}
        ordered == OrderedRows(matched, HistoryLimit)
    IN  [i \in 1..Len(ordered) |-> to_dto(ordered[i])]

\* the filters a caller passes
QueryInputs == {None, Some(TextA), Some(<< "A" >>), Some(<< "_" >>), Some(TextBlank)}
TypeInputs == {None, Some("text"), Some("image"), Some("all")}
TimeInputs == {None, Some("today"), Some("yesterday"), Some("earlier"), Some("all")}
SourceInputs == {None, Some(<< >>), Some(AppVi)}

\* get_history, the first command of a run
get_history(query, type_filter, time_filter, source_filter, offset) ==
    /\ reply = NoReply
    /\ reply' = Reply("get_history", TRUE,
                      Some(SelectHistory(clipboard_items, query, type_filter,
                                         time_filter, source_filter, now, offset)),
                      Some([query |-> query, type_filter |-> type_filter,
                            time_filter |-> time_filter,
                            source_filter |-> source_filter,
                            at |-> now, offset |-> offset]))
    /\ UNCHANGED << clipboard_items, next_rowid, db_settings, state_settings,
                    clipboard, last_seq, SKIP_UNTIL_MS, now, emitted, tick,
                    replay, updaters, written >>

GetHistory ==
    \E query \in QueryInputs, type_filter \in TypeInputs,
       time_filter \in TimeInputs, source_filter \in SourceInputs,
       offset \in Offsets :
        get_history(query, type_filter, time_filter, source_filter, offset)

\* a row of a history left by earlier runs
StoredRow(id, ctype, text, image, app, at, pinned) ==
    [id |-> id, content_type |-> ctype, text_content |-> text,
     image_data |-> image, source_app |-> app, created_at |-> at,
     is_pinned |-> pinned, usage_count |-> 0]

\* 23:59 and 00:01 UTC around the start of day 2
TwoRowHistory ==
    { StoredRow(1, "text", Some(TextA), None, Some(AppVi), 2 * DayMs - MinuteMs, FALSE),
      StoredRow(2, "text", Some(TextB), None, Some(AppEd), 2 * DayMs + MinuteMs, FALSE) }

\* rows around the starts of day 1 and day 2 in the time zones of Offsets
WeekHistory ==
    { StoredRow(1, "text", Some(TextA), None, Some(AppVi), DayMs - MinuteMs, TRUE),
      StoredRow(2, "text", Some(TextB), None, Some(AppEd), DayMs, FALSE),
      StoredRow(3, "image", None, Some(PngEncode("p")), None, DayMs + HourMs, FALSE),
      StoredRow(4, "text", Some(TextASp), None, Some(AppVi), 2 * DayMs - HourMs, FALSE),
      StoredRow(5, "text", Some(TextA), None, Some(AppEd), 2 * DayMs - MinuteMs, FALSE),
      StoredRow(6, "text", Some(TextB), None, Some(AppVi), 2 * DayMs, TRUE),
      StoredRow(7, "image", None, Some(PngEncode("r")), Some(AppVi), 2 * DayMs + MinuteMs, FALSE),
      StoredRow(8, "text", Some(TextA), None, None, 2 * DayMs + HourMs, FALSE) }

\* BulkRows pictures copied one per poll from 02:00 UTC of day 2 on, the
\* oldest pinned
BulkHistory ==
    { StoredRow(i, "image", None,
                Some(PngEncode(IF i % 2 = 1 THEN "p" ELSE "r")), Some(AppEd),
                2 * DayMs + 2 * HourMs + i * PollMs, i = 1) : i \in 1..BulkRows }

SmallHistories == {{}, TwoRowHistory, WeekHistory}

\* the times of the queries: 00:30 and 12:00 UTC of day 2
QueryTimes == {2 * DayMs + 30 * MinuteMs, 2 * DayMs + 12 * HourMs}

\* a later run: the default settings, a history in the table, the watcher
\* started on an unchanged clipboard
InitQuery ==
    /\ \/ clipboard_items \in SmallHistories /\ now \in QueryTimes
       \/ clipboard_items = BulkHistory /\ now = 2 * DayMs + 12 * HourMs
    /\ next_rowid = Cardinality(clipboard_items) + 1
    /\ db_settings = [max_history |-> SETTINGS_DEFAULT_max_history,
                      record_images |-> TRUE, hotkey |-> "Ctrl+Shift+V",
                      blacklist |-> << >>]
    /\ state_settings = db_settings
    /\ clipboard = [seq |-> 0, text |-> None, image |-> None]
    /\ last_seq = 0
    /\ SKIP_UNTIL_MS = 0
    /\ emitted = {}
    /\ tick = [outcome |-> "start", id |-> 0, proc_info |-> None,
               running |-> TRUE]
    /\ replay = IdleReplay
    /\ updaters = [c \in Callers |-> IdleUpdater]
    /\ reply = NoReply
    /\ written = << >>

\* ---------------------------------------------------------------- startup
\* SETTINGS_DEFAULT
SETTINGS_DEFAULT ==
    [max_history |-> SETTINGS_DEFAULT_max_history, record_images |-> TRUE,
     hotkey |-> "Ctrl+Shift+V", blacklist |-> << >>]

\* the columns ensure_schema_updates looks for in PRAGMA table_info
NewColumns == {"source_path", "source_icon"}

\* ALTER TABLE clipboard_items ADD COLUMN ..: a row of a table without the
\* column holds NULL in it afterwards, its other columns are kept
AddColumns(e) ==
    [c \in DOMAIN e \cup NewColumns |-> IF c \in DOMAIN e THEN e[c] ELSE None]

ensure_schema_updates(rows) == {AddColumns(e) : e \in rows}

\* ensure_db writing SETTINGS_DEFAULT without the settings_json.is_none() test
ensure_db_reset_settings(rows, row) ==
    [rows |-> ensure_schema_updates(rows), settings |-> SETTINGS_DEFAULT]

\* ensure_db on the rows of clipboard_items and the settings row with key
\* 'app' (None: no such row, or no table yet): CREATE TABLE IF NOT EXISTS
\* keeps what exists, ensure_schema_updates adds the missing columns, and
\* the default settings are inserted when the SELECT found no row
ensure_db(rows, row) ==
    [rows |-> ensure_schema_updates(rows),
     settings |-> IF row = None THEN SETTINGS_DEFAULT ELSE row]

\* the process is not running / main() has returned from ensure_db
Stopped == [outcome |-> "off", id |-> 0, proc_info |-> None, running |-> FALSE]
Ensured == [outcome |-> "ensured", id |-> 0, proc_info |-> None, running |-> FALSE]

\* main(): ensure_db(&db_path)
MainEnsureDb ==
    /\ tick = Stopped
    /\ LET db == ensure_db(clipboard_items, db_settings)
       IN  /\ clipboard_items' = db.rows
           /\ db_settings' = db.settings
    /\ tick' = Ensured
    /\ UNCHANGED << next_rowid, state_settings, clipboard, last_seq,
                    SKIP_UNTIL_MS, now, emitted, replay, updaters, reply,
                    written >>

\* main(): load_settings(&db_path), AppState, spawn_clipboard_watcher
MainLoadSettings ==
    /\ tick = Ensured
    /\ db_settings' = load_settings(db_settings)
    /\ state_settings' = load_settings(db_settings)
    /\ last_seq' = clipboard.seq
    /\ tick' = [outcome |-> "start", id |-> 0, proc_info |-> None,
                running |-> TRUE]
    /\ UNCHANGED << clipboard_items, next_rowid, clipboard, SKIP_UNTIL_MS,
                    now, emitted, replay, updaters, reply, written >>

\* the process exits: AppState and the watcher thread are gone, the database
\* file stays
Exit ==
    /\ tick.running
    /\ tick' = Stopped
    /\ state_settings' = None
    /\ UNCHANGED << clipboard_items, next_rowid, db_settings, clipboard,
                    last_seq, SKIP_UNTIL_MS, now, emitted, replay, updaters,
                    reply, written >>

\* a row written by the schema without source_path and source_icon
OldRow(id, text, at, pinned, used) ==
    [id |-> id, content_type |-> "text", text_content |-> Some(text),
     image_data |-> None, source_app |-> None, created_at |-> at,
     is_pinned |-> pinned, usage_count |-> used]

\* a row written by the present schema
FullRow(id, text, at, pinned, used, path) ==
    [id |-> id, content_type |-> "text", text_content |-> Some(text),
     image_data |-> None, source_app |-> Some(AppVi), source_path |-> path,
     source_icon |-> None, created_at |-> at, is_pinned |-> pinned,
     usage_count |-> used]

\* the tables clipboard_items a database file can hold when main() starts:
\* none or an empty one, tables of the schema without the two columns, and
\* tables of the present schema
PriorTables ==
    { {},
      {OldRow(1, TextA, 250, TRUE, 1)},
      {OldRow(1, TextA, 250, FALSE, 0), OldRow(2, TextB, 500, TRUE, 2)},
      {OldRow(2, TextB, 500, FALSE, 0)},
      {OldRow(1, TextASp, 250, FALSE, 1), OldRow(2, TextA, 500, FALSE, 0),
       OldRow(3, TextB, 750, TRUE, 0)},
      {FullRow(2, TextB, 500, FALSE, 1, None)},
      {FullRow(1, TextA, 250, TRUE, 1, Some(<<"/", "v", "i">>))},
      {FullRow(1, TextA, 250, FALSE, 0, None),
       FullRow(3, TextB, 750, TRUE, 2, Some(<<"/", "v", "i">>))} }

\* a database file before main() runs, the process not started
InitStartup ==
    /\ clipboard_items \in PriorTables
    /\ next_rowid = 4
    /\ db_settings \in {None} \cup StoredSettings
    /\ state_settings = None
    /\ clipboard = [seq |-> 0, text |-> None, image |-> None]
    /\ last_seq = 0
    /\ SKIP_UNTIL_MS = 0
    /\ now = 0
    /\ emitted = {}
    /\ tick = Stopped
    /\ replay = IdleReplay
    /\ updaters = [c \in Callers |-> IdleUpdater]
    /\ reply = NoReply
    /\ written = << >>

\* ------------------------------------------------------------------- Next
Next ==
    \/ ExternalWriteText
    \/ ExternalWriteImage
    \/ TickAny
    \/ DeleteEntry
    \/ TogglePin
    \/ GetHistory
    \/ get_settings
    \/ UpdateSettingsSave
    \/ UpdateSettingsStore
    \/ CopyEntryBegin
    \/ PasteEntryBegin
    \/ ReplayWriteStep
    \/ ReplaySynthesizeStep
    \/ ReplayIncrementStep

\* the whole program; the claims are checked under its parts below
Spec == Init /\ [][Next]_vars

\* the watcher and other programs' text copies only
NextMonitor == ExternalWriteShort \/ TickOnTime
SpecMonitor == Init /\ [][NextMonitor]_vars

\* the watcher, pinning, deleting and changes of max_history
NextStore ==
    \/ ExternalWriteAB
    \/ TickOnTime
    \/ DeleteEntry
    \/ TogglePin
    \/ UpdateCapSave
    \/ UpdateStoreOk
SpecStore == Init /\ [][NextStore]_vars

\* the watcher with a foreground application and a blacklist
NextBlacklist ==
    \/ ExternalWriteMixed
    \/ TickAttributed
    \/ UpdateBlacklistSave
    \/ UpdateStoreOk
SpecBlacklist == Init /\ [][NextBlacklist]_vars

\* the watcher and copy_entry
NextReplay ==
    \/ ExternalWriteFew
    \/ TickOk
    \/ CopyEntryBegin
    \/ ReplayWriteStep
    \/ ReplayIncrementStep
SpecReplay == Init /\ [][NextReplay]_vars

\* update_settings from two callers, get_settings and the watcher
NextSettings ==
    \/ UpdateSettingsSave
    \/ UpdateSettingsStore
    \/ get_settings
    \/ ExternalWriteFew
    \/ TickOnTime
SpecSettings == Init /\ [][NextSettings]_vars

\* the watcher with failing clipboard and store calls
NextFaults == ExternalWriteMixed \/ TickFaulty
SpecFaults == Init /\ [][NextFaults]_vars

\* the final UPDATE succeeding
ReplayIncrementOk == ReplayIncrement(TRUE)

\* the watcher, copy_entry and paste_entry, the store not failing
NextPaste ==
    \/ ExternalWriteFew
    \/ TickOnTime
    \/ CopyEntryBegin
    \/ PasteEntryBegin
    \/ ReplayWriteStep
    \/ ReplaySynthesizeStep
    \/ ReplayIncrementOk
SpecPaste == Init /\ [][NextPaste]_vars

\* get_history over the histories of InitQuery
NextQuery == GetHistory
SpecQuery == InitQuery /\ [][NextQuery]_vars

\* the watcher over clipboards that hold text, pictures or both
NextContent == ExternalWriteContent \/ TickOnTime
SpecContent == Init /\ [][NextContent]_vars

\* copy_entry or paste_entry finding the clipboard, its write and the key
\* synthesis succeeding
ReplayBeginOpened ==
    \E id \in KnownIds, mode \in {"copy_entry", "paste_entry"} :
        ReplayBegin(id, mode, TRUE)
ReplayWriteDone == ReplayWrite(TRUE)
ReplaySynthesizeSent == ReplaySynthesize(TRUE)

\* a copy made once the watcher has seen the clipboard's last change
ExternalWritePolled == clipboard.seq = last_seq /\ ExternalWriteFew

\* toggle_pin of the first row stored
TogglePinFirst == toggle_pin(1)

\* update_settings lowering max_history to 1, no call failing
UpdateCapOne == UpdateSave(1, [state_settings EXCEPT !.max_history = 1], TRUE)

\* the watcher, toggle_pin, copy_entry, paste_entry and update_settings
NextMutations ==
    \/ ExternalWritePolled
    \/ TickOnTime
    \/ TogglePinFirst
    \/ ReplayBeginOpened
    \/ ReplayWriteDone
    \/ ReplaySynthesizeSent
    \/ ReplayIncrementOk
    \/ UpdateCapOne
    \/ UpdateStoreOk
SpecMutations == Init /\ [][NextMutations]_vars

\* update_settings from one caller with failing calls, get_settings and the
\* watcher
NextUpdate ==
    \/ UpdateOneSave
    \/ UpdateOneStore
    \/ get_settings
    \/ ExternalWriteFew
    \/ TickOnTime
SpecUpdate == Init /\ [][NextUpdate]_vars

\* main() started again and again on the database file it finds
NextStartup == MainEnsureDb \/ MainLoadSettings \/ Exit
SpecStartup == InitStartup /\ [][NextStartup]_vars

\* ----------------------------------------------------------------- claims
WrittenTexts == [i \in 1..Len(written) |-> written[i].text]

\* the number of values left after collapsing adjacent equal values
AdjacentDedupCount(seq) ==
    Cardinality({i \in 1..Len(seq) : i = 1 \/ seq[i] /= seq[i - 1]})

NonBlankText(text) == text /= None /\ Trim(text[1]) /= << >>
OnlyNonBlankWritten == \A i \in 1..Len(written) : NonBlankText(written[i].text)

\* every write was polled by a tick before the next write replaced it
EachWriteHadItsTick == \A i \in 1..Len(written) : ~written[i].overwrote
AllPolled == last_seq = clipboard.seq

WithText(rows, text) == {e \in rows : e.content_type = "text" /\ e.text_content = text}

\* C1: external writes of non-blank text, each polled by its own tick, the
\* gate never armed, nothing pinned, max_history positive: once the latest
\* write is polled the number of non-pinned rows is min(k, max_history),
\* k the length of the written sequence after collapsing adjacent repeats.
C1_HistoryLength ==
    ( /\ state_settings.max_history > 0
      /\ SKIP_UNTIL_MS = 0
      /\ Pinned(clipboard_items) = {}
      /\ OnlyNonBlankWritten
      /\ EachWriteHadItsTick
      /\ AllPolled )
    => /\ Cardinality(NonPinned(clipboard_items)) <= state_settings.max_history
       /\ Cardinality(NonPinned(clipboard_items))
            = Min(AdjacentDedupCount(WrittenTexts), state_settings.max_history)

\* three writes, one adjacent repeat, cap 1: dedup and eviction both acted
C1_Witness ==
    /\ state_settings.max_history = 1
    /\ OnlyNonBlankWritten /\ EachWriteHadItsTick /\ AllPolled
    /\ Len(written) = 3
    /\ AdjacentDedupCount(WrittenTexts) = 2
    /\ Cardinality(clipboard_items) = 1

\* C3: A then A again stores one entry for A; A, B, A stores three entries,
\* two of them for A (the cap being large enough to keep them).
C3_AdjacentDedupOnly ==
    ( /\ OnlyNonBlankWritten /\ EachWriteHadItsTick /\ AllPolled
      /\ state_settings.max_history >= 3 )
    => /\ ( Len(written) = 2 /\ written[1].text = written[2].text )
            => Cardinality(WithText(clipboard_items, written[1].text)) = 1
               /\ Cardinality(clipboard_items) = 1
       /\ ( /\ Len(written) = 3
            /\ written[1].text = written[3].text
            /\ written[1].text /= written[2].text )
            => Cardinality(WithText(clipboard_items, written[1].text)) = 2
               /\ Cardinality(clipboard_items) = 3

\* A, B, A polled one by one: two rows hold A
C3_Witness ==
    /\ EachWriteHadItsTick /\ AllPolled
    /\ Len(written) = 3
    /\ written[1].text = Some(TextA) /\ written[2].text = Some(TextB)
    /\ written[3].text = Some(TextA)
    /\ Cardinality(WithText(clipboard_items, Some(TextA))) = 2

\* C6 as claimed: once everything written is polled (and nothing was
\* evicted), every non-blank write that differs from the write before it
\* has a row.
C6_NoWriteLost ==
    ( /\ AllPolled
      /\ state_settings.max_history >= Len(written) )
    => \A i \in 1..Len(written) :
          ( /\ NonBlankText(written[i].text)
            /\ i > 1 => written[i].text /= written[i - 1].text )
          => WithText(clipboard_items, written[i].text) /= {}

\* C6 amended: a tick that finds the sequence number changed stores the text
\* that is on the clipboard at that moment when it is non-blank and differs
\* from the most recent row, and stores nothing else; what was overwritten
\* before the tick gets no row from it.
C6_TickStoresCurrentText ==
    [][ ( /\ now' /= now
          /\ clipboard.seq /= last_seq )
        => LET last == LastRow(clipboard_items)
               fresh == {e \in clipboard_items' : e.id \notin Ids(clipboard_items)}
           IN  /\ ( /\ NonBlankText(clipboard.text)
                    /\ state_settings.max_history > 0
                    /\ last /= None => last[1].text_content /= clipboard.text )
                   => \E e \in fresh : /\ e.text_content = clipboard.text
                                       /\ e.id \in emitted'
               /\ \A e \in fresh : e.text_content = clipboard.text
               /\ Cardinality(fresh) <= 1
               /\ last_seq' = clipboard.seq
      ]_vars

\* two writes between two ticks: the second one is stored, the first is not
C6_Witness ==
    /\ Len(written) = 2
    /\ written[2].overwrote
    /\ written[1].text = Some(TextA) /\ written[2].text = Some(TextB)
    /\ AllPolled
    /\ WithText(clipboard_items, Some(TextB)) /= {}
    /\ WithText(clipboard_items, Some(TextA)) = {}

\* C2: a pinned row is never removed by eviction: a step that removes a row
\* that is pinned is delete_entry of that id, whatever max_history is and
\* however many rows were inserted after it.
C2_PinnedNeverEvicted ==
    [][ \A e \in clipboard_items :
           (e.is_pinned /\ e.id \notin Ids(clipboard_items'))
           => /\ reply'.cmd = "delete_entry"
              /\ clipboard_items' = clipboard_items \ {e}
      ]_vars

\* row 1 was pinned, then max_history = 1 or more further rows were
\* inserted and evicted around it
C2_Witness ==
    /\ \E e \in clipboard_items : e.id = 1 /\ e.is_pinned
    /\ state_settings.max_history = 1
    /\ reply.cmd = "toggle_pin"
    /\ tick.outcome = "stored" /\ tick.id = 3
    /\ next_rowid = 4

\* C10 as claimed: in every state the number of non-pinned rows is at most
\* the current max_history, also right after update_settings lowered it.
C10_NeverOverCap ==
    Cardinality(NonPinned(clipboard_items)) <= state_settings.max_history

\* C10 amended: right after a tick has stored a row with max_history = m,
\* m >= 0, at most m non-pinned rows exist.
C10_CapAfterInsert ==
    [][ ( /\ now' /= now
          /\ tick'.outcome = "stored"
          /\ state_settings.max_history >= 0 )
        => Cardinality(NonPinned(clipboard_items')) <= state_settings.max_history
      ]_vars

\* max_history was lowered to 1 over a fuller history, and the next insert
\* brought the non-pinned rows down to 1
C10_Witness ==
    /\ tick.outcome = "stored" /\ tick.id = 3
    /\ reply.cmd = "update_settings"
    /\ state_settings.max_history = 1
    /\ db_settings.max_history = 1
    /\ Cardinality(NonPinned(clipboard_items)) = 1
    /\ updaters[1].pc = "idle"

\* C5: a tick past the gate whose foreground display name equals a blacklist
\* entry up to ASCII case stores nothing and emits nothing whatever the
\* clipboard holds, and consumes the change: last_seq is advanced, and a
\* tick that finds the sequence number unchanged stores nothing.
C5_BlacklistedDropped ==
    [][ /\ ( /\ now' /= now
             /\ clipboard.seq /= last_seq
             /\ now' >= SKIP_UNTIL_MS
             /\ tick'.proc_info = Some(AppVi)
             /\ \E i \in 1..Len(state_settings.blacklist) :
                   state_settings.blacklist[i] = BlackVi )
           => /\ clipboard_items' = clipboard_items
              /\ emitted' = emitted
              /\ next_rowid' = next_rowid
              /\ last_seq' = clipboard.seq
        /\ ( now' /= now /\ clipboard.seq = last_seq )
           => /\ clipboard_items' = clipboard_items
              /\ emitted' = emitted
      ]_vars

\* "Vi" in front, "vI" blacklisted, text and picture on the clipboard
C5_Witness ==
    /\ tick.outcome = "blacklisted"
    /\ tick.proc_info = Some(AppVi)
    /\ state_settings.blacklist = << BlackVi >>
    /\ clipboard.text = Some(TextA) /\ clipboard.image = Some("p")
    /\ AllPolled
    /\ clipboard_items = {}

\* C4: copy_entry arms the gate at now + 1200 ms; a tick before that time that
\* finds the sequence number changed creates no row and emits nothing,
\* whichever row was replayed; a change first found by a tick at or after
\* that time creates a row when its text differs from the most recent row.
C4_SuppressionWindow ==
    [][ /\ ( replay.pc = "idle" /\ replay'.pc = "armed" )
           => SKIP_UNTIL_MS' = now + 1200
        /\ ( /\ now' /= now
             /\ clipboard.seq /= last_seq
             /\ now' < SKIP_UNTIL_MS )
           => /\ clipboard_items' = clipboard_items
              /\ emitted' = emitted
              /\ next_rowid' = next_rowid
        /\ ( /\ now' /= now
             /\ clipboard.seq /= last_seq
             /\ now' >= SKIP_UNTIL_MS
             /\ NonBlankText(clipboard.text)
             /\ LastRow(clipboard_items) /= None
                  => LastRow(clipboard_items)[1].text_content /= clipboard.text )
           => \E e \in clipboard_items' :
                 /\ e.id = next_rowid
                 /\ e.text_content = clipboard.text
                 /\ e.created_at = now'
      ]_vars

\* a row was replayed, its write was passed over inside the window, and a
\* tick exactly 1200 ms after the arming stored a later copy
C4_Witness ==
    /\ SKIP_UNTIL_MS > 0
    /\ now = SKIP_UNTIL_MS
    /\ tick.outcome = "stored"
    /\ \E e \in clipboard_items : e.usage_count = 1
    /\ Cardinality(clipboard_items) = 2
    /\ clipboard.seq = 3

\* C7: whenever no update_settings call is in progress, the in-memory
\* snapshot equals the persisted settings row.
C7_SnapshotEqualsRow ==
    (\A c \in Callers : updaters[c].pc = "idle") => state_settings = db_settings

\* C8: whatever Settings value update_settings is given, the value it
\* returns, the persisted row and the in-memory snapshot have record_images
\* = true; so has every value get_settings returns.
C8_RecordImagesForced ==
    /\ db_settings.record_images
    /\ state_settings.record_images
    /\ reply.value /= None => reply.value[1].record_images
    /\ \A c \in Callers :
          updaters[c].normalized /= None => updaters[c].normalized[1].record_images

\* update_settings was given record_images = false and returned Ok
C8_Witness ==
    /\ reply.cmd = "update_settings" /\ reply.ok
    /\ reply.arg /= None /\ ~reply.arg[1].record_images
    /\ reply.value /= None /\ reply.value[1].record_images
    /\ db_settings = reply.value[1]
    /\ state_settings = reply.value[1]

\* C9: a tick in which the clipboard or the store fails leaves the watcher
\* in its loop, and when the tick after a failed one finds a later change
\* and nothing fails, it stores the non-blank text it finds (one that
\* differs from the most recent row).
C9_FailedTickKeepsWatching ==
    [][ /\ tick'.running
        /\ ( /\ tick.outcome = "error"
             /\ now' /= now
             /\ clipboard.seq /= last_seq
             /\ tick'.outcome /= "error"
             /\ NonBlankText(clipboard.text)
             /\ LastRow(clipboard_items) /= None
                  => LastRow(clipboard_items)[1].text_content /= clipboard.text )
           => /\ tick'.outcome = "stored"
              /\ \E e \in clipboard_items' :
                    /\ e.id = tick'.id
                    /\ e.id \notin Ids(clipboard_items)
                    /\ e.text_content = clipboard.text
      ]_vars

\* the tick for the first write failed before anything was stored, the tick
\* for the second write stored it
C9_Witness ==
    /\ Len(written) = 2
    /\ EachWriteHadItsTick /\ AllPolled
    /\ written[1].text = None /\ written[1].image = Some("p")
    /\ written[2].text = Some(TextA)
    /\ tick.outcome = "stored"
    /\ tick.running
    /\ Cardinality(clipboard_items) = 1
    /\ WithText(clipboard_items, Some(TextA)) /= {}

\* the row a tick at time at inserts for the text on the clipboard
TickRow(at) ==
    [Candidate("text", clipboard.text, None, None, at) EXCEPT !.id = next_rowid]

\* the k most recently created rows of rows
MostRecent(rows, k) ==
    {e \in rows : Cardinality({f \in rows : f.created_at > e.created_at}) < k}

\* C11 as claimed: a tick that inserts a row with max_history = c, c >= 0,
\* into a store that then holds n non-pinned rows (the new one included)
\* leaves exactly the min(n, c) most recently created non-pinned rows,
\* however many rows are pinned.
C11_CapCountsNonPinnedOnly ==
    [][ ( /\ now' /= now
          /\ tick'.outcome = "stored"
          /\ state_settings.max_history >= 0 )
        => LET np == NonPinned(clipboard_items) \cup {TickRow(now')}
           IN  /\ Cardinality(NonPinned(clipboard_items'))
                    = Min(Cardinality(np), state_settings.max_history)
               /\ NonPinned(clipboard_items')
                    = MostRecent(np, state_settings.max_history)
      ]_vars

ReplayModes == {"copy_entry", "paste_entry"}

\* C12: copy_entry or paste_entry called with an id that has no row returns
\* Err and changes nothing: SKIP_UNTIL_MS keeps its value, the clipboard is
\* not written, the call ends before simulate_paste, no usage_count changes.
C12_MissingIdNoEffect ==
    [][ \A id \in KnownIds, mode \in ReplayModes, opened \in BOOLEAN :
           ( /\ id \notin Ids(clipboard_items)
             /\ ReplayBegin(id, mode, opened) )
           => /\ reply'.cmd = mode /\ ~reply'.ok
              /\ SKIP_UNTIL_MS' = SKIP_UNTIL_MS
              /\ clipboard' = clipboard
              /\ clipboard_items' = clipboard_items
              /\ replay' = IdleReplay
      ]_vars

\* paste_entry was called on an empty history and returned Err; the gate was
\* never armed and only other programs wrote the clipboard
C12_Witness ==
    /\ clipboard_items = {}
    /\ reply.cmd = "paste_entry" /\ ~reply.ok
    /\ replay = IdleReplay
    /\ SKIP_UNTIL_MS = 0
    /\ clipboard.seq = Len(written)
    /\ Len(written) = 1

\* C13: when simulate_paste fails, paste_entry returns Err and undoes
\* nothing: the clipboard keeps what the call wrote (the text of the row),
\* SKIP_UNTIL_MS keeps the value the call stored, the table is untouched.
C13_SynthesisFailureKeepsWrite ==
    [][ /\ ( /\ replay.pc = "armed" /\ replay'.pc = "written"
             /\ replay.item[1].content_type = "text" )
           => /\ clipboard'.text = Some(UnwrapOrDefault(replay.item[1].text_content))
              /\ clipboard'.seq = clipboard.seq + 1
        /\ ( /\ replay.pc = "written" /\ replay.mode = "paste_entry"
             /\ replay'.pc = "idle" )
           => /\ reply'.cmd = "paste_entry" /\ ~reply'.ok
              /\ clipboard' = clipboard
              /\ SKIP_UNTIL_MS' = SKIP_UNTIL_MS
              /\ SKIP_UNTIL_MS >= SkipWindowMs
              /\ clipboard_items' = clipboard_items
      ]_vars

\* paste_entry of the row holding "a" wrote the clipboard and returned Err:
\* the clipboard holds "a" written by the call, the gate is still armed
C13_Witness ==
    /\ reply.cmd = "paste_entry" /\ ~reply.ok
    /\ replay = IdleReplay
    /\ clipboard.seq = Len(written) + 1
    /\ clipboard.text = Some(TextA)
    /\ Len(written) = 2 /\ written[2].text = Some(TextB)
    /\ SKIP_UNTIL_MS > now
    /\ \A e \in clipboard_items : e.usage_count = 0

\* C14 as claimed: a call that has written the clipboard returns with the
\* usage_count of its row one higher, in paste_entry also when simulate_paste
\* failed; paste_entry does not change usage_count before simulate_paste.
C14_EveryWrittenReplayCounts ==
    [][ /\ ( /\ replay.pc \in {"written", "synthesized"}
             /\ replay'.pc = "idle" )
           => \A e \in clipboard_items :
                 e.id = replay.id
                 => [e EXCEPT !.usage_count = e.usage_count + 1] \in clipboard_items'
        /\ ( /\ replay.mode = "paste_entry"
             /\ replay.pc \in {"armed", "written"} )
           => clipboard_items' = clipboard_items
      ]_vars

\* C18: copy_entry and paste_entry store now + 1200 in SKIP_UNTIL_MS in a
\* step that leaves the clipboard alone; the clipboard write of the call is
\* a later step, and SKIP_UNTIL_MS holds the value of this call from the
\* arming until the call returns.
C18_ArmBeforeWrite ==
    [][ /\ ( replay.pc = "idle" /\ replay'.pc /= "idle" )
           => /\ replay'.pc = "armed"
              /\ SKIP_UNTIL_MS' = now + 1200
              /\ clipboard' = clipboard
        /\ replay.pc /= "idle" => SKIP_UNTIL_MS' = SKIP_UNTIL_MS
        /\ ( clipboard' /= clipboard /\ written' = written )
           => /\ replay.pc = "armed" /\ replay'.pc = "written"
              /\ SKIP_UNTIL_MS >= SkipWindowMs
      ]_vars

\* paste_entry armed the gate at a time later than 0, wrote the clipboard in
\* a later step, and a tick inside the window passed the write over
C18_Witness ==
    /\ replay.pc = "written" /\ replay.mode = "paste_entry"
    /\ SKIP_UNTIL_MS > SkipWindowMs
    /\ clipboard.seq = Len(written) + 1
    /\ tick.outcome = "skipped"
    /\ AllPolled
    /\ now < SKIP_UNTIL_MS

\* C19: a tick that finds the sequence number changed passes the change
\* over exactly when its time is below SKIP_UNTIL_MS; it sets last_seq to
\* the new number in either case, and when it passes the change over it
\* leaves the table, the events and the row counter alone; a tick that finds
\* the number unchanged does nothing, so the change passed over is stored by
\* no later tick unless the clipboard changes again.
C19_SkippedChangeConsumed ==
    [][ /\ ( now' /= now /\ clipboard.seq /= last_seq )
           => /\ (tick'.outcome = "skipped") <=> (now' < SKIP_UNTIL_MS)
              /\ last_seq' = clipboard.seq
              /\ tick'.outcome = "skipped"
                 => /\ clipboard_items' = clipboard_items
                    /\ emitted' = emitted
                    /\ next_rowid' = next_rowid
        /\ ( now' /= now /\ clipboard.seq = last_seq )
           => /\ tick'.outcome = "idle"
              /\ last_seq' = last_seq
              /\ clipboard_items' = clipboard_items
              /\ emitted' = emitted
      ]_vars

\* "b" was copied by another program, then copy_entry armed the gate, the
\* tick inside the window passed "b" over, and the ticks up to the end of the
\* window stored no row for it
C19_Witness ==
    /\ tick.outcome = "idle"
    /\ SKIP_UNTIL_MS > 0
    /\ now >= SKIP_UNTIL_MS
    /\ clipboard.seq = Len(written)
    /\ Len(written) = 2 /\ ~written[2].overwrote
    /\ clipboard.text = Some(TextB)
    /\ AllPolled
    /\ WithText(clipboard_items, Some(TextB)) = {}
    /\ WithText(clipboard_items, Some(TextA)) /= {}

\* C20 as claimed: when a tick has failed and the clipboard does not change
\* again, the next tick that does not fail stores the text the failed tick
\* found.
C20_NextTickRetries ==
    [][ ( /\ tick.outcome = "error"
          /\ now' /= now
          /\ tick'.outcome /= "error"
          /\ clipboard.seq = last_seq
          /\ NonBlankText(clipboard.text)
          /\ state_settings.max_history > 0
          /\ WithText(clipboard_items, clipboard.text) = {} )
        => WithText(clipboard_items', clipboard.text) /= {}
      ]_vars

\* C20 amended: a tick that fails has consumed the change it found, last_seq
\* holds the new sequence number; the ticks after it store nothing until the
\* clipboard changes again, and then they handle the new change.
C20_FailedTickNotRetried ==
    [][ /\ ( now' /= now /\ clipboard.seq /= last_seq /\ tick'.outcome = "error" )
           => /\ last_seq' = clipboard.seq
              /\ tick'.running
        /\ ( tick.outcome = "error" /\ now' /= now /\ clipboard.seq = last_seq )
           => /\ tick'.outcome = "idle"
              /\ clipboard_items' = clipboard_items
              /\ emitted' = emitted
              /\ next_rowid' = next_rowid
        /\ ( tick.outcome = "error" /\ now' /= now /\ clipboard.seq /= last_seq )
           => tick'.outcome /= "idle"
      ]_vars

\* the tick that found "a" failed and the tick after it did nothing: "a" is
\* on the clipboard and has no row
C20_Witness ==
    /\ Len(written) = 1
    /\ written[1].text = Some(TextA)
    /\ AllPolled
    /\ tick.outcome = "idle"
    /\ clipboard_items = {}
    /\ next_rowid = 1
    /\ state_settings.max_history > 0

\* C17: delete_entry and toggle_pin called with an id that has no row
\* return Ok and leave the table as it is; with the id of a row,
\* delete_entry removes that row and no other, toggle_pin negates is_pinned
\* of that row and changes nothing else, and toggling the same id twice
\* gives the table back.
C17_PointMutations ==
    [][ \A id \in KnownIds :
           /\ delete_entry(id)
              => /\ reply'.cmd = "delete_entry" /\ reply'.ok
                 /\ id \notin Ids(clipboard_items)
                    => clipboard_items' = clipboard_items
                 /\ id \in Ids(clipboard_items)
                    => clipboard_items' = clipboard_items \ {Row(id)}
           /\ toggle_pin(id)
              => /\ reply'.cmd = "toggle_pin" /\ reply'.ok
                 /\ id \notin Ids(clipboard_items)
                    => clipboard_items' = clipboard_items
                 /\ id \in Ids(clipboard_items)
                    => /\ clipboard_items' =
                            (clipboard_items \ {Row(id)})
                            \cup {[Row(id) EXCEPT !.is_pinned = ~Row(id).is_pinned]}
                       /\ TogglePinned(clipboard_items', id) = clipboard_items
      ]_vars

\* row 1 was deleted and row 2 is left, not pinned: the toggle_pin that
\* returned Ok last named an id without a row or undid a toggle of row 2
C17_Witness ==
    /\ reply.cmd = "toggle_pin" /\ reply.ok
    /\ Ids(clipboard_items) = {2}
    /\ next_rowid = 3
    /\ state_settings.max_history >= 2
    /\ db_settings.max_history >= 2
    /\ \A e \in clipboard_items : ~e.is_pinned /\ e.created_at = 500

\* the arguments and the result of the get_history call that returned last
QueryArg == reply.arg[1]
Returned == reply.value[1]
ReturnedIds == {Returned[i].id : i \in 1..Len(Returned)}
OnlyTimeFilter ==
    /\ reply.cmd = "get_history"
    /\ QueryArg.query = None
    /\ QueryArg.type_filter = None
    /\ QueryArg.source_filter = None

\* the rows of the three buckets for local midnights t0 and y0
BucketToday(t0) == {e \in clipboard_items : e.created_at >= t0}
BucketYesterday(y0, t0) ==
    {e \in clipboard_items : y0 <= e.created_at /\ e.created_at < t0}
BucketEarlier(y0) == {e \in clipboard_items : e.created_at < y0}

\* t0 and y0 are the starts of the local day of at and of the day before
LocalMidnights(t0, y0, at, offset) ==
    /\ (t0 + offset) % DayMs = 0
    /\ t0 <= at /\ at < t0 + DayMs
    /\ y0 = t0 - DayMs

\* the first 500 of bucket in the order of the result
FirstOfBucket(bucket) ==
    /\ ReturnedIds \subseteq Ids(bucket)
    /\ Cardinality(ReturnedIds) = Min(Cardinality(bucket), 500)
    /\ \A e \in bucket :
          e.id \notin ReturnedIds
          => \A i \in 1..Len(Returned) : ~Before(e, Row(Returned[i].id))

\* C15 as claimed: with the time filter alone, "today" returns exactly the
\* rows with created_at >= T0, "yesterday" exactly those with Y0 <=
\* created_at < T0, "earlier" exactly those with created_at < Y0, T0 and Y0
\* the local midnights of today and yesterday; every row is in exactly one
\* of the three.
C15_BucketsExact ==
    OnlyTimeFilter
    => LET t0 == today_start(QueryArg.at, QueryArg.offset)
           y0 == yesterday_start(QueryArg.at, QueryArg.offset)
       IN  /\ LocalMidnights(t0, y0, QueryArg.at, QueryArg.offset)
           /\ QueryArg.time_filter = Some("today")
              => ReturnedIds = Ids(BucketToday(t0))
           /\ QueryArg.time_filter = Some("yesterday")
              => ReturnedIds = Ids(BucketYesterday(y0, t0))
           /\ QueryArg.time_filter = Some("earlier")
              => ReturnedIds = Ids(BucketEarlier(y0))
           /\ \A e \in clipboard_items :
                 Cardinality({b \in {"t", "y", "e"} :
                     \/ b = "t" /\ e \in BucketToday(t0)
                     \/ b = "y" /\ e \in BucketYesterday(y0, t0)
                     \/ b = "e" /\ e \in BucketEarlier(y0)}) = 1

\* C15 amended: the same, but of a bucket that holds more than 500 rows the
\* call returns the first 500 in the order pinned first, newest first.
C15_BucketsUpToLimit ==
    OnlyTimeFilter
    => LET t0 == today_start(QueryArg.at, QueryArg.offset)
           y0 == yesterday_start(QueryArg.at, QueryArg.offset)
       IN  /\ LocalMidnights(t0, y0, QueryArg.at, QueryArg.offset)
           /\ QueryArg.time_filter = Some("today")
              => FirstOfBucket(BucketToday(t0))
           /\ QueryArg.time_filter = Some("yesterday")
              => FirstOfBucket(BucketYesterday(y0, t0))
           /\ QueryArg.time_filter = Some("earlier")
              => FirstOfBucket(BucketEarlier(y0))
           /\ \A e \in clipboard_items :
                 Cardinality({b \in {"t", "y", "e"} :
                     \/ b = "t" /\ e \in BucketToday(t0)
                     \/ b = "y" /\ e \in BucketYesterday(y0, t0)
                     \/ b = "e" /\ e \in BucketEarlier(y0)}) = 1

\* rows created at 23:59 yesterday and 00:01 today, asked for at 00:30 in
\* UTC: "yesterday" returned the first row only
C15_Witness ==
    /\ OnlyTimeFilter
    /\ clipboard_items = TwoRowHistory
    /\ QueryArg.time_filter = Some("yesterday")
    /\ QueryArg.offset = 0
    /\ QueryArg.at = 2 * DayMs + 30 * MinuteMs
    /\ ReturnedIds = {1}

\* text holds q as a substring, ASCII case aside
Contains(text, q) ==
    \E i \in 1..(Len(text) - Len(q) + 1) :
        eq_ignore_ascii_case(SubSeq(text, i, i + Len(q) - 1), q)

\* e passes the filters of arg as the specification words them: substring
\* of the text, equal content kind, equal source application, time bucket
Satisfies(e, arg) ==
    LET t0 == today_start(arg.at, arg.offset)
        y0 == yesterday_start(arg.at, arg.offset)
    IN  /\ ( arg.query /= None /\ Trim(arg.query[1]) /= << >> )
           => e.text_content /= None /\ Contains(e.text_content[1], arg.query[1])
        /\ ( arg.type_filter /= None /\ arg.type_filter[1] \in {"text", "image"} )
           => e.content_type = arg.type_filter[1]
        /\ ( arg.source_filter /= None /\ arg.source_filter[1] /= << >> )
           => e.source_app = arg.source_filter
        /\ arg.time_filter = Some("today") => e.created_at >= t0
        /\ arg.time_filter = Some("yesterday")
           => y0 <= e.created_at /\ e.created_at < t0
        /\ arg.time_filter = Some("earlier") => e.created_at < y0

\* C16 as claimed: whatever filters are passed, get_history returns at most
\* 500 rows, each passing every filter passed, pinned rows before the
\* others and newest first within both groups; when more than 500 rows
\* pass, the result is the first 500 of that order.
C16_FilteredOrderedCapped ==
    reply.cmd = "get_history"
    => LET passing == {e \in clipboard_items : Satisfies(e, QueryArg)}
       IN  /\ Len(Returned) <= 500
           /\ \A i \in 1..Len(Returned) :
                 /\ Returned[i].id \in Ids(clipboard_items)
                 /\ Satisfies(Row(Returned[i].id), QueryArg)
           /\ \A i \in 1..(Len(Returned) - 1) :
                 Before(Returned[i], Returned[i + 1])
           /\ Cardinality(passing) > 500
              => /\ Len(Returned) = 500
                 /\ \A e \in passing :
                       e.id \notin ReturnedIds
                       => \A i \in 1..Len(Returned) : Before(Returned[i], e)

\* the candidate the specification builds from the clipboard: a text entry
\* for non-blank text, else a picture entry when a picture is present
SpecCandidate(at) ==
    IF NonBlankText(clipboard.text)
    THEN Some(Candidate("text", clipboard.text, None, None, at))
    ELSE IF clipboard.image /= None
    THEN Some(Candidate("image", None, Some(PngEncode(clipboard.image[1])),
                        None, at))
    ELSE None

\* C21 as claimed: a tick that reads the clipboard takes non-blank text as a
\* text candidate; failing that it takes a picture as a picture candidate,
\* also when blank text is present beside it; it drops the change only when
\* there is neither. A candidate that is no duplicate of the most recent row
\* becomes a new row.
C21_TextElseImage ==
    [][ ( /\ now' /= now
          /\ clipboard.seq /= last_seq
          /\ now' >= SKIP_UNTIL_MS )
        => LET cand == SpecCandidate(now')
           IN  /\ cand = None => clipboard_items' = clipboard_items
               /\ ( cand /= None /\ is_duplicate(clipboard_items, cand[1]) )
                  => clipboard_items' = clipboard_items
               /\ ( cand /= None /\ ~is_duplicate(clipboard_items, cand[1]) )
                  => [cand[1] EXCEPT !.id = next_rowid] \in clipboard_items'
      ]_vars

\* candidates offered to is_duplicate: the texts "a", "a " and "b", and the
\* pictures "p", "q" (payloads of equal length) and "r"
DupCandidates ==
    {Candidate("text", Some(t), None, None, 0) : t \in {TextA, TextASp, TextB}}
    \cup {Candidate("image", None, Some(PngEncode(i)), None, 0) : i \in Images}

\* C22: is_duplicate is false on an empty table and when the most recently
\* created row is of the other content kind; for a text against a text row
\* it is true exactly when the texts are equal as they stand; for a picture
\* against a picture row exactly when the payloads have the same length.
C22_DuplicateRule ==
    \A c \in DupCandidates :
        is_duplicate(clipboard_items, c)
        <=> \E e \in clipboard_items :
               /\ \A f \in clipboard_items : f.created_at <= e.created_at
               /\ e.content_type = c.content_type
               /\ c.content_type = "text" => e.text_content = c.text_content
               /\ c.content_type = "image"
                  => Len(e.image_data[1]) = Len(c.image_data[1])

\* picture "p" is stored, then picture "q", whose payload differs but has
\* the same length, was found by a tick and taken for a duplicate
C22_Witness ==
    /\ tick.outcome = "duplicate"
    /\ clipboard.text = None /\ clipboard.image = Some("q")
    /\ AllPolled
    /\ Cardinality(clipboard_items) = 1
    /\ \A e \in clipboard_items :
          /\ e.image_data = Some(PngEncode("p"))
          /\ e.image_data /= Some(PngEncode("q"))
          /\ Len(e.image_data[1]) = Len(PngEncode("q"))

\* C23 as claimed: when a tick has stored a row with max_history >= 1, the
\* row it notifies of is in clipboard_items when insert_item has returned,
\* however many rows are pinned, and every id notified of is the id of a
\* row that was in the table at the time of its notification.
C23_NotifiedRowStored ==
    [][ ( /\ now' /= now
          /\ tick'.outcome = "stored"
          /\ state_settings.max_history >= 1 )
        => /\ tick'.id \in emitted'
           /\ \E e \in clipboard_items' :
                 e.id = tick'.id /\ e.created_at = now'
      ]_vars

\* C24 as claimed: max_history is at least 1 in the settings row and in the
\* snapshot in every reachable state, whatever integer update_settings was
\* given.
C24_MaxHistoryPositive ==
    /\ db_settings.max_history >= 1
    /\ state_settings.max_history >= 1

\* the columns of a row that no statement of the program updates
SameContent(e, f) ==
    /\ f.id = e.id
    /\ f.content_type = e.content_type
    /\ f.text_content = e.text_content
    /\ f.image_data = e.image_data
    /\ f.source_app = e.source_app
    /\ f.created_at = e.created_at

\* C25: no step changes the id, kind, payload, source attribution or
\* created_at of a row that stays in the table, and usage_count never
\* decreases; toggle_pin(id) changes only is_pinned of row id; a step of
\* copy_entry or paste_entry changes only usage_count of the row it
\* replays; update_settings changes no row; a tick adds at most one row,
\* under an id no row had, and leaves the rows that remain as they were.
C25_RowsImmutable ==
    [][ /\ \A e \in clipboard_items : \A f \in clipboard_items' :
              f.id = e.id => SameContent(e, f) /\ f.usage_count >= e.usage_count
        /\ Cardinality(Ids(clipboard_items')) = Cardinality(clipboard_items')
        /\ \A id \in KnownIds :
              toggle_pin(id)
              => /\ Ids(clipboard_items') = Ids(clipboard_items)
                 /\ \A e \in clipboard_items : \A f \in clipboard_items' :
                       f.id = e.id
                       => /\ f.usage_count = e.usage_count
                          /\ f.is_pinned = IF e.id = id THEN ~e.is_pinned
                                           ELSE e.is_pinned
        /\ replay' /= replay
           => /\ Ids(clipboard_items') = Ids(clipboard_items)
              /\ \A e \in clipboard_items : \A f \in clipboard_items' :
                    f.id = e.id
                    => /\ f.is_pinned = e.is_pinned
                       /\ e.id /= replay.id => f.usage_count = e.usage_count
        /\ updaters' /= updaters => clipboard_items' = clipboard_items
        /\ now' /= now
           => /\ \A f \in clipboard_items' :
                    f \in clipboard_items
                    \/ ( /\ f.id \notin Ids(clipboard_items)
                         /\ f.id = tick'.id
                         /\ f.created_at = now' )
              /\ Cardinality(clipboard_items' \ clipboard_items) <= 1
      ]_vars

\* row 1 was pinned and replayed once, row 2 was stored after it and is as
\* it was inserted, and update_settings has lowered max_history
C25_Witness ==
    /\ \E e \in clipboard_items :
          e.id = 1 /\ e.is_pinned /\ e.usage_count = 1
    /\ \E f \in clipboard_items :
          f.id = 2 /\ ~f.is_pinned /\ f.usage_count = 0 /\ f.created_at > 250
    /\ reply.cmd \in ReplayModes /\ reply.ok
    /\ replay.pc = "idle"
    /\ state_settings.max_history = 1 /\ db_settings.max_history = 1
    /\ updaters[1].pc = "idle"

\* C26: when save_settings fails, update_settings returns Err, the snapshot
\* and the settings row keep their values and the call ends before the
\* snapshot assignment and register_hotkey; when save_settings succeeded,
\* the row holds the normalized settings before the snapshot is touched,
\* and when register_hotkey then fails, update_settings returns Err with the
\* snapshot and the row both holding the normalized settings.
C26_UpdateErrorOutcomes ==
    [][ /\ \A s \in Settings :
              UpdateSave(1, s, FALSE)
              => /\ reply' = Reply("update_settings", FALSE, None, Some(s))
                 /\ state_settings' = state_settings
                 /\ db_settings' = db_settings
                 /\ updaters'[1].pc = "idle"
        /\ \A s \in Settings :
              UpdateSave(1, s, TRUE)
              => /\ db_settings' = [s EXCEPT !.record_images = TRUE]
                 /\ state_settings' = state_settings
                 /\ reply' = reply
                 /\ updaters'[1].pc = "saved"
        /\ ( updaters[1].pc = "saved" /\ updaters'[1].pc = "idle"
             /\ ~reply'.ok )
           => LET s == updaters[1].settings[1]
              IN  /\ reply'.cmd = "update_settings"
                  /\ state_settings' = [s EXCEPT !.record_images = TRUE]
                  /\ db_settings' = [s EXCEPT !.record_images = TRUE]
      ]_vars

\* update_settings was called with record_images = false, has returned Err,
\* and the settings row and the snapshot both hold the settings of that call
\* with record_images = true
C26_Witness ==
    /\ reply.cmd = "update_settings" /\ ~reply.ok
    /\ reply.arg /= None
    /\ ~reply.arg[1].record_images
    /\ state_settings = [reply.arg[1] EXCEPT !.record_images = TRUE]
    /\ db_settings = state_settings
    /\ updaters[1].pc = "idle"

\* C27 as claimed: a copy_entry or paste_entry call that has stored
\* SKIP_UNTIL_MS writes the clipboard as its next step, and a tick skips a
\* change inside the window only when copy_entry or paste_entry has written
\* the clipboard (clipboard.seq counts the writes of other programs, which
\* written lists, and those of the replays).
C27_ArmedOnlyForWrites ==
    [][ /\ ( replay.pc = "armed" /\ replay' /= replay )
           => /\ replay'.pc = "written"
              /\ clipboard'.seq = clipboard.seq + 1
        /\ ( now' /= now /\ tick'.outcome = "skipped" )
           => clipboard.seq > Len(written)
      ]_vars

\* C28: ensure_db keeps every row of clipboard_items (each column a row had
\* keeps its value, and a table of the present schema is left as it is),
\* keeps the settings row when there is one, whatever it holds, and writes
\* SETTINGS_DEFAULT exactly when there is none; applied to its own result it
\* changes nothing.
C28_EnsureDbIdempotent ==
    [][ ( tick = Stopped /\ tick' = Ensured )
        => /\ Cardinality(clipboard_items') = Cardinality(clipboard_items)
           /\ \A e \in clipboard_items : \E f \in clipboard_items' :
                 \A c \in DOMAIN e : f[c] = e[c]
           /\ ( \A e \in clipboard_items : NewColumns \subseteq DOMAIN e )
              => clipboard_items' = clipboard_items
           /\ db_settings /= None => db_settings' = db_settings
           /\ db_settings = None
              => db_settings' = [max_history |-> 1000, record_images |-> TRUE,
                                 hotkey |-> "Ctrl+Shift+V", blacklist |-> << >>]
           /\ ensure_db(clipboard_items', db_settings')
                 = [rows |-> clipboard_items', settings |-> db_settings']
      ]_vars

\* main() has returned from ensure_db on a database file that held a pinned
\* row of the schema without source_path and a settings row with
\* max_history = 2 and record_images = false: the row and the settings row
\* are there as they were
C28_Witness ==
    /\ tick = Ensured
    /\ \E e \in clipboard_items :
          /\ e.id = 1 /\ e.is_pinned /\ e.usage_count = 1
          /\ e.text_content = Some(TextA)
          /\ e.source_path = None
    /\ db_settings /= None
    /\ db_settings.max_history = 2
    /\ ~db_settings.record_images
    /\ state_settings = None

====
